---- MODULE Spec2Model ----
(***************************************************************************)
(* Model of shelf_tag_test/extract_shelf_tags.py: the pipeline driver      *)
(* (main), the row processor (process_shelf_tags_row) and the helpers they *)
(* call.  Text is modelled as a sequence of code points (46 '.', 47 '/',   *)
(* 48..57 '0'..'9', 32 ' ', letters from 97), so that strip, the all-zero  *)
(* test, the numeric-suffix regex and the sort key are computed, not       *)
(* assumed.                                                                *)
(***************************************************************************)
EXTENDS Integers, Sequences, FiniteSets, TLC

\* ---------------------------------------------------------------- bounds
\* Rows of the manifests of the two runs together.
MaxRows == 2
\* Elements of the JSON array of one row.
MaxItems == 2
\* Largest row cap (--limit-rows) tried; 0 is no cap.
MaxLimit == 1
\* Columns of a manifest row given to get_field_value.
MaxFields == 2
\* Members of an archive given to extract_zip_entries.
MaxMembers == 3

\* ------------------------------------------------------ program constants
\* download_bytes(url, max_retries=3, ...)
MaxRetries == 3
\* sort_key: 10**9 for a filename without a numeric suffix
Sentinel == 1000000000

\* ------------------------------------------------------------------ text
IsSpace(c) == c \in {9, 10, 11, 12, 13, 32}
IsDigit(c) == c \in 48..57

RECURSIVE LStrip(_)
LStrip(s) == IF s # <<>> /\ IsSpace(Head(s)) THEN LStrip(Tail(s)) ELSE s

RECURSIVE RStrip(_)
RStrip(s) ==
  IF s # <<>> /\ IsSpace(s[Len(s)]) THEN RStrip(SubSeq(s, 1, Len(s) - 1)) ELSE s

\* str.strip()
Strip(s) == RStrip(LStrip(s))

\* str < str: by code point, a proper prefix first
RECURSIVE StrLess(_, _)
StrLess(a, b) ==
  IF b = <<>> THEN FALSE
  ELSE IF a = <<>> THEN TRUE
  ELSE IF Head(a) # Head(b) THEN Head(a) < Head(b)
  ELSE StrLess(Tail(a), Tail(b))

\* int(text) of a run of decimal digits
RECURSIVE IntOf(_)
IntOf(s) ==
  IF s = <<>> THEN 0 ELSE 10 * IntOf(SubSeq(s, 1, Len(s) - 1)) + (s[Len(s)] - 48)

\* str(n) of a non-negative int
RECURSIVE StrOfNat(_)
StrOfNat(n) ==
  IF n < 10 THEN <<48 + n>> ELSE StrOfNat(n \div 10) \o <<48 + (n % 10)>>

\* A test for the one text "0" in place of 0+
is_all_zeros_single(s) == s = <<48>>

\* re.fullmatch(r"0+", s)
is_all_zeros(s) == s # <<>> /\ \A i \in 1..Len(s) : s[i] = 48

\* The absent value (None)
None == [t |-> "none", s |-> <<>>, n |-> 0]
\* A str value
Str(s) == [t |-> "str", s |-> s, n |-> 0]
\* A JSON number
Num(n) == [t |-> "num", s |-> <<>>, n |-> n]

\* str(value) for a str or an int
PyStr(v) == IF v.t = "num" THEN StrOfNat(v.n) ELSE v.s

S_null == <<110, 117, 108, 108>>

\* value in (None, 'null')
IsNoneOrNull(v) == v = None \/ v = Str(S_null)

\* (value or '') for a str or None
OrEmpty(v) == IF v.t = "str" THEN v.s ELSE <<>>

\* ------------------------------------------- parse_int_suffix_from_filename
\* re.search(r"(\d+)(?=\.[^.]+$)", filename): the lookahead asks for a '.'
\* right after the digits and then one or more non-'.' characters up to the
\* end, so the '.' is the last one of the name and is not its last
\* character; \d+ is greedy and the search leftmost, so the match is the
\* whole run of digits that ends just before that '.'.
LastDot(s) ==
  IF \E i \in 1..Len(s) : s[i] = 46
  THEN CHOOSE i \in 1..Len(s) : s[i] = 46 /\ \A j \in (i + 1)..Len(s) : s[j] # 46
  ELSE 0

RunStart(s, e) ==
  CHOOSE i \in 1..e : (\A j \in i..e : IsDigit(s[j])) /\ (i = 1 \/ ~IsDigit(s[i - 1]))

HasIntSuffix(s) ==
  LET d == LastDot(s) IN d > 1 /\ d < Len(s) /\ IsDigit(s[d - 1])

\* The int of the match; called only when HasIntSuffix (else the code has None)
parse_int_suffix_from_filename(s) ==
  LET d == LastDot(s) IN IntOf(SubSeq(s, RunStart(s, d - 1), d - 1))

\* sort_key(name) -> (idx or 10**9, name)
sort_key(name) ==
  <<IF HasIntSuffix(name) THEN parse_int_suffix_from_filename(name) ELSE Sentinel, name>>

\* tuple comparison of two sort keys
KeyLess(a, b) ==
  LET ka == sort_key(a)
      kb == sort_key(b)
  IN ka[1] < kb[1] \/ (ka[1] = kb[1] /\ StrLess(ka[2], kb[2]))

\* One name put into an ordered sequence: after every name whose key is
\* not greater (a stable sort keeps equal keys in their input order)
RECURSIVE InsertByKey(_, _)
InsertByKey(out, name) ==
  IF out = <<>> THEN <<name>>
  ELSE IF KeyLess(name, Head(out)) THEN <<name>> \o out
  ELSE <<Head(out)>> \o InsertByKey(Tail(out), name)

RECURSIVE SortInto(_, _)
SortInto(out, names) ==
  IF names = <<>> THEN out ELSE SortInto(InsertByKey(out, Head(names)), Tail(names))

\* sorted(names, key=sort_key), names in the dict's key order
sorted(names) == SortInto(<<>>, names)

\* ------------------------------------------------------------------ dict
\* A dict is the sequence of its (key, value) pairs in insertion order
EmptyMap == <<>>

\* k in d
Has(d, k) == \E i \in 1..Len(d) : d[i].k = k

\* d[k]
Get(d, k) == d[CHOOSE i \in 1..Len(d) : d[i].k = k].v

\* d.setdefault(k, v): a present key keeps its value
Put_KeepFirst(d, k, v) ==
  IF Has(d, k) THEN d ELSE Append(d, [k |-> k, v |-> v])

\* d[k] = v: a present key keeps its place and takes the new value
Put(d, k, v) ==
  IF Has(d, k)
  THEN [i \in 1..Len(d) |-> IF d[i].k = k THEN [k |-> k, v |-> v] ELSE d[i]]
  ELSE Append(d, [k |-> k, v |-> v])

\* d.keys()
Keys(d) == [i \in 1..Len(d) |-> d[i].k]

\* --------------------------------------------------------- Metadata Matcher
\* One element of the parsed JSON array: an object with
\* uploaded_image.image_filename, barcode and barcode_detection_source (each
\* possibly absent); dict is whether the element is an object at all.
Obj(f, b, s) == [dict |-> TRUE, filename |-> f, barcode |-> b, source |-> s]

\* (obj.get('uploaded_image') or {}).get('image_filename') or '', stripped
ElemFilename(obj) == Strip(OrEmpty(obj.filename))

\* ('' if barcode_raw in (None, 'null') else str(barcode_raw)).strip()
ElemBarcode(obj) ==
  Strip(IF IsNoneOrNull(obj.barcode) THEN <<>> ELSE PyStr(obj.barcode))

\* (source_raw if source_raw not in (None, 'null') else '').strip()
ElemSource(obj) ==
  Strip(IF IsNoneOrNull(obj.source) THEN <<>> ELSE obj.source.s)

\* not barcode or is_all_zeros(barcode)
BarcodeUnusable(barcode) == barcode = <<>> \/ is_all_zeros(barcode)

\* The element sets filename_to_meta[filename]
ElemQualifies(obj) ==
  obj.dict /\ ElemFilename(obj) # <<>> /\ ~BarcodeUnusable(ElemBarcode(obj))

\* The loop over items that builds filename_to_meta
RECURSIVE build_filename_to_meta(_, _)
build_filename_to_meta(items, acc) ==
  IF items = <<>> THEN acc
  ELSE LET obj == Head(items)
       IN build_filename_to_meta(
            Tail(items),
            IF ElemQualifies(obj)
            THEN Put(acc, ElemFilename(obj),
                     [barcode |-> ElemBarcode(obj), source |-> ElemSource(obj)])
            ELSE acc)

\* ---------------------------------------------------------- Archive Decoder
\* The member's whole path kept as the key
Basename_Whole(path) == path

\* os.path.basename(path): what follows the last '/'
RECURSIVE Basename(_)
Basename(path) ==
  IF \E i \in 1..Len(path) : path[i] = 47
  THEN Basename(Tail(path))
  ELSE path

\* extract_zip_entries on the members of a well-formed archive, in
\* archive-member order: result[base_name] = content
RECURSIVE extract_zip_entries(_, _)
extract_zip_entries(members, acc) ==
  IF members = <<>> THEN acc
  ELSE extract_zip_entries(
         Tail(members), Put(acc, Basename(Head(members).path), Head(members).data))

\* ------------------------------------------------------------ JSON cell
\* What json.loads makes of a text: a list, another value, or JSONDecodeError
JList(items) == [t |-> "list", items |-> items]
JOther == [t |-> "other", items |-> <<>>]
JError == [t |-> "error", items |-> <<>>]
JNone == [t |-> "none", items |-> <<>>]

\* A manifest cell holding JSON: its text (None when the row has no such
\* column) and what json.loads returns or raises for the stripped text
Cell(text, loads) == [text |-> text, loads |-> loads]

\* safe_json_loads(text)
safe_json_loads(cell) ==
  IF cell.text = None THEN JNone
  ELSE IF Strip(cell.text.s) = <<>> THEN JNone
  ELSE IF cell.loads = JError THEN JNone
  ELSE cell.loads

\* The emptiness test left out
IsNonEmptyList_AnyList(v) == v.t = "list"

\* isinstance(items, list) and items
IsNonEmptyList(v) == v.t = "list" /\ v.items # <<>>

\* ------------------------------------------------------------ input sets
F_x == <<120, 46, 106>>
F_a2 == <<97, 50, 46, 106>>
F_dir_x == <<100, 47, 120, 46, 106>>
F_a10 == <<97, 49, 48, 46, 106>>
F_b02 == <<98, 48, 50, 46, 106>>
F_a2e9 == <<97, 50, 48, 48, 48, 48, 48, 48, 48, 48, 48, 46, 106>>
B_12 == <<49, 50>>
B_7sp == <<32, 55, 32>>
B_000 == <<48, 48, 48>>
S_ml == <<109, 108>>
U_http == <<32, 117>>

RECURSIVE SeqsUpTo(_, _)
SeqsUpTo(S, n) ==
  IF n = 0 THEN {<<>>}
  ELSE LET shorter == SeqsUpTo(S, n - 1)
       IN shorter \cup {Append(q, e) : q \in {r \in shorter : Len(r) = n - 1}, e \in S}

\* Elements of a row's JSON array
Elements ==
  {Obj(Str(F_x), Str(B_12), Str(S_ml)), Obj(Str(F_x), Str(B_000), Str(S_ml)),
   Obj(Str(F_x), Str(B_7sp), Str(S_null)), Obj(Str(F_a2), Num(7), None),
   Obj(Str(F_a2), None, Str(S_ml))}

\* The JSON cell of a row
JsonCells ==
  {Cell(None, JError), Cell(Str(<<32>>), JError), Cell(Str(<<123>>), JError),
   Cell(Str(<<123, 125>>), JOther), Cell(Str(<<91, 93>>), JList(<<>>))}
  \cup {Cell(Str(<<91, 123, 125, 93>>), JList(q)) : q \in SeqsUpTo(Elements, MaxItems) \ {<<>>}}

\* The archive-URL cell of a row
UrlCells == {None, Str(<<32>>), Str(U_http)}

\* A manifest row, as the values of its two columns
Rows == [zip : UrlCells, json : JsonCells]

Member(path, data) == [path |-> path, data |-> data]

\* What a GET of the archive URL can return: no bytes, bytes that are no ZIP
\* archive, or an archive with these members
Bodies ==
  {[kind |-> "empty", members |-> <<>>], [kind |-> "corrupt", members |-> <<>>]}
  \cup {[kind |-> "zip", members |-> m] :
          m \in {<<>>, <<Member(F_x, 1)>>, <<Member(F_a2, 1), Member(F_dir_x, 2)>>}}

NoBody == [kind |-> "none", members |-> <<>>]
EmptyBody == [kind |-> "empty", members |-> <<>>]
NoRow == [zip |-> None, json |-> Cell(None, JError)]

\* ------------------------------------------------------------------ state
VARIABLES
  pc,                \* where the program is: main, loop, check, fetch, decode, save, done, exit
  run,               \* 1: the first run; 2: the run started again on the same output directory
  start,             \* args.start
  limit_rows,        \* args.limit_rows
  nrows,             \* len(rows)
  idx,               \* rows of this run the loop has taken
  processed_rows,    \* main's processed_rows
  image_counter,     \* main's image_counter
  row,               \* the row being processed
  image_counter_start, \* process_shelf_tags_row's parameter
  attempt,           \* download_bytes' attempt
  zip_bytes,         \* what download_bytes returned
  zip_entries,       \* base filename -> content
  filename_to_meta,  \* filename -> (barcode, source)
  sorted_filenames,  \* the processing order
  pos,               \* position of the image loop in sorted_filenames
  counter,           \* process_shelf_tags_row's counter
  saved,             \* the image files written to the output directory, in order:
                     \* <n>.heif with its content, and the run and call that wrote it
  metadata,          \* the lines of metadata.txt, each with the number of its image
  calls,             \* calls of process_shelf_tags_row so far, both runs
  outcome,           \* how the last call ended
  gets,              \* the GET attempts of the last download_bytes call, with
                     \* what each ended in; kept until its result is used
  desired_field,     \* get_field_value's desired_field
  field_value        \* what get_field_value returned

vars ==
  <<pc, run, start, limit_rows, nrows, idx, processed_rows, image_counter, row,
    image_counter_start, attempt, zip_bytes, zip_entries, filename_to_meta,
    sorted_filenames, pos, counter, saved, metadata, calls, outcome, gets,
    desired_field, field_value>>

driver == <<run, start, limit_rows, nrows>>
\* The pipeline takes the two cells of a row as looked up: get_field_value is
\* followed on its own, in SpecField
fields == <<desired_field, field_value>>
locals ==
  <<row, image_counter_start, attempt, zip_bytes, zip_entries, filename_to_meta,
    sorted_filenames, pos, counter>>

NoOutcome == [kind |-> "none", reason |-> "", counter_start |-> 0, counter_end |-> 0]

Init ==
  /\ pc = "main"
  /\ run = 1
  /\ start = 0
  /\ limit_rows = 0
  /\ nrows = 0
  /\ idx = 0
  /\ processed_rows = 0
  /\ image_counter = 0
  /\ row = NoRow
  /\ image_counter_start = 0
  /\ attempt = 0
  /\ zip_bytes = NoBody
  /\ zip_entries = EmptyMap
  /\ filename_to_meta = EmptyMap
  /\ sorted_filenames = <<>>
  /\ pos = 0
  /\ counter = 0
  /\ saved = <<>>
  /\ metadata = <<>>
  /\ calls = 0
  /\ outcome = NoOutcome
  /\ gets = <<>>
  /\ desired_field = None
  /\ field_value = None

\* The locals of process_shelf_tags_row go out of scope
DropLocals ==
  /\ row' = NoRow
  /\ image_counter_start' = 0
  /\ attempt' = 0
  /\ zip_bytes' = NoBody
  /\ zip_entries' = EmptyMap
  /\ filename_to_meta' = EmptyMap
  /\ sorted_filenames' = <<>>
  /\ pos' = 0
  /\ counter' = 0

\* image_counter = process_shelf_tags_row(...)
CounterAfterReturn(value) == value

\* The handler crediting the increments the failed row made
CounterAfterException_KeepPartial(reached) == reached

\* except Exception: image_counter keeps its value
CounterAfterException(reached) == image_counter

\* process_shelf_tags_row returns value: main assigns it and counts the row
Return(value, reason) ==
  /\ image_counter' = CounterAfterReturn(value)
  /\ processed_rows' = processed_rows + 1
  /\ idx' = idx + 1
  /\ pc' = "loop"
  /\ outcome' = [kind |-> "returned", reason |-> reason,
                 counter_start |-> image_counter_start, counter_end |-> value]
  /\ DropLocals
  /\ UNCHANGED <<driver, calls>>

\* No try/except around the call: the exception ends the run
Raise_Abort(reached, reason) ==
  /\ pc' = "exit"
  /\ outcome' = [kind |-> "raised", reason |-> reason,
                 counter_start |-> image_counter_start, counter_end |-> reached]
  /\ DropLocals
  /\ UNCHANGED <<driver, idx, image_counter, processed_rows, calls>>

\* process_shelf_tags_row raises with its counter at reached: main logs the
\* exception and goes on to the next row
Raise(reached, reason) ==
  /\ image_counter' = CounterAfterException(reached)
  /\ idx' = idx + 1
  /\ pc' = "loop"
  /\ outcome' = [kind |-> "raised", reason |-> reason,
                 counter_start |-> image_counter_start, counter_end |-> reached]
  /\ DropLocals
  /\ UNCHANGED <<driver, processed_rows, calls>>

\* ----------------------------------------------------------------- main
\* rows = read_csv_rows(...): no rows, main returns
MainNoRows ==
  /\ pc = "main"
  /\ \E lim \in 0..MaxLimit : limit_rows' = lim
  /\ nrows' = 0
  /\ pc' = "exit"
  /\ UNCHANGED <<run, start, idx, processed_rows, image_counter, locals, saved,
                 metadata, calls, outcome, gets, fields>>

\* rows loaded: image_counter = args.start, processed_rows = 0
MainLoaded ==
  /\ pc = "main"
  /\ \E n \in 1..(MaxRows - calls) : nrows' = n
  /\ \E lim \in 0..MaxLimit : limit_rows' = lim
  /\ image_counter' = start
  /\ processed_rows' = 0
  /\ idx' = 0
  /\ pc' = "loop"
  /\ UNCHANGED <<run, start, locals, saved, metadata, calls, outcome, gets,
                 fields>>

\* The loop ending at the first row that raised
LoopDone_AfterError ==
  /\ pc = "loop"
  /\ idx = nrows \/ outcome.kind = "raised"
  /\ pc' = "done"
  /\ UNCHANGED <<driver, idx, processed_rows, image_counter, locals, saved,
                 metadata, calls, outcome, gets, fields>>

\* The for loop is out of rows: "Done. Saved images up to index ..."
LoopDone ==
  /\ pc = "loop"
  /\ idx = nrows
  /\ pc' = "done"
  /\ UNCHANGED <<driver, idx, processed_rows, image_counter, locals, saved,
                 metadata, calls, outcome, gets, fields>>

\* if args.limit_rows and processed_rows >= args.limit_rows: break
LoopBreak ==
  /\ pc = "loop"
  /\ idx < nrows
  /\ limit_rows # 0 /\ processed_rows >= limit_rows
  /\ pc' = "done"
  /\ UNCHANGED <<driver, idx, processed_rows, image_counter, locals, saved,
                 metadata, calls, outcome, gets, fields>>

\* The loop takes the next row, one of R, and calls process_shelf_tags_row
\* on it
CallRowOf(R) ==
  /\ pc = "loop"
  /\ idx < nrows
  /\ ~(limit_rows # 0 /\ processed_rows >= limit_rows)
  /\ \E r \in R : row' = r
  /\ image_counter_start' = image_counter
  /\ calls' = calls + 1
  /\ outcome' = NoOutcome
  /\ pc' = "check"
  /\ gets' = <<>>
  /\ UNCHANGED <<driver, idx, processed_rows, image_counter, attempt, zip_bytes,
                 zip_entries, filename_to_meta, sorted_filenames, pos, counter,
                 saved, metadata, fields>>

CallRow == CallRowOf(Rows)

\* The program is started again on the same output directory, with --start
\* set to the final counter value the first run reported
Rerun ==
  /\ pc = "done"
  /\ run = 1
  /\ calls < MaxRows
  /\ run' = 2
  /\ start' = image_counter
  /\ pc' = "main"
  /\ outcome' = NoOutcome
  /\ gets' = <<>>
  /\ UNCHANGED <<limit_rows, nrows, idx, processed_rows, image_counter, locals,
                 saved, metadata, calls, fields>>

\* ------------------------------------------------- process_shelf_tags_row
zip_url == Strip(OrEmpty(row.zip))
items == safe_json_loads(row.json)

\* if not zip_url: return image_counter_start
SkipNoUrl ==
  /\ pc = "check"
  /\ zip_url = <<>>
  /\ Return(image_counter_start, "no_url")
  /\ UNCHANGED <<saved, metadata, gets, fields>>

\* if not isinstance(items, list) or not items: return image_counter_start
SkipNoItems ==
  /\ pc = "check"
  /\ zip_url # <<>>
  /\ ~IsNonEmptyList(items)
  /\ Return(image_counter_start, "no_items")
  /\ UNCHANGED <<saved, metadata, gets, fields>>

\* The download begun above the two skip checks
StartDownload_Unchecked ==
  /\ pc = "check"
  /\ attempt' = 1
  /\ pc' = "fetch"
  /\ UNCHANGED <<driver, idx, processed_rows, image_counter, row,
                 image_counter_start, zip_bytes, zip_entries, filename_to_meta,
                 sorted_filenames, pos, counter, saved, metadata, calls, outcome,
                 gets, fields>>

\* zip_bytes = download_bytes(zip_url): the first attempt is due
StartDownload ==
  /\ pc = "check"
  /\ zip_url # <<>>
  /\ IsNonEmptyList(items)
  /\ attempt' = 1
  /\ pc' = "fetch"
  /\ UNCHANGED <<driver, idx, processed_rows, image_counter, row,
                 image_counter_start, zip_bytes, zip_entries, filename_to_meta,
                 sorted_filenames, pos, counter, saved, metadata, calls, outcome,
                 gets, fields>>

\* ---------------------------------------------------------- download_bytes
\* One GET attempt: how it ended and, when it succeeded, the body it read
Got(result, body) == [result |-> result, body |-> body]

\* An attempt succeeds with no bytes: if not zip_bytes: return image_counter_start
GetNoBytes ==
  /\ pc = "fetch"
  /\ Return(image_counter_start, "no_data")
  /\ gets' = Append(gets, Got("ok", EmptyBody))
  /\ UNCHANGED <<saved, metadata, fields>>

\* An attempt succeeds: return resp.read()
GetBytes ==
  /\ pc = "fetch"
  /\ \E b \in Bodies :
       /\ b.kind # "empty"
       /\ zip_bytes' = b
       /\ gets' = Append(gets, Got("ok", b))
  /\ attempt' = 0
  /\ pc' = "decode"
  /\ UNCHANGED <<driver, idx, processed_rows, image_counter, row,
                 image_counter_start, zip_entries, filename_to_meta,
                 sorted_filenames, pos, counter, saved, metadata, calls, outcome,
                 fields>>

\* HTTPError, URLError or TimeoutError with attempts left: sleep, next attempt
GetFailsRetry ==
  /\ pc = "fetch"
  /\ attempt < MaxRetries
  /\ attempt' = attempt + 1
  /\ gets' = Append(gets, Got("error", NoBody))
  /\ UNCHANGED <<driver, pc, idx, processed_rows, image_counter, row,
                 image_counter_start, zip_bytes, zip_entries, filename_to_meta,
                 sorted_filenames, pos, counter, saved, metadata, calls, outcome,
                 fields>>

\* download_bytes giving up on the first failure
GetFailsGiveUp_Early ==
  /\ pc = "fetch"
  /\ attempt >= 1
  /\ Return(image_counter_start, "gave_up")
  /\ gets' = Append(gets, Got("error", NoBody))
  /\ UNCHANGED <<saved, metadata, fields>>

\* The last attempt fails: download_bytes returns None and the row is skipped
GetFailsGiveUp ==
  /\ pc = "fetch"
  /\ attempt = MaxRetries
  /\ Return(image_counter_start, "gave_up")
  /\ gets' = Append(gets, Got("error", NoBody))
  /\ UNCHANGED <<saved, metadata, fields>>

\* An attempt raises an exception download_bytes does not catch
GetRaises ==
  /\ pc = "fetch"
  /\ Raise(image_counter_start, "fetch_raised")
  /\ gets' = Append(gets, Got("raised", NoBody))
  /\ UNCHANGED <<saved, metadata, fields>>

\* ------------------------------------------------ decode, match and order
\* zipfile.ZipFile raises BadZipFile
DecodeRaises ==
  /\ pc = "decode"
  /\ zip_bytes.kind = "corrupt"
  /\ Raise(image_counter_start, "bad_zip")
  /\ gets' = <<>>
  /\ UNCHANGED <<saved, metadata, fields>>

\* if not zip_entries: return image_counter_start
DecodeNoEntries ==
  /\ pc = "decode"
  /\ zip_bytes.kind = "zip"
  /\ extract_zip_entries(zip_bytes.members, EmptyMap) = EmptyMap
  /\ Return(image_counter_start, "no_entries")
  /\ gets' = <<>>
  /\ UNCHANGED <<saved, metadata, fields>>

\* zip_entries, filename_to_meta, sorted_filenames, counter = image_counter_start
Prepare ==
  /\ pc = "decode"
  /\ zip_bytes.kind = "zip"
  /\ extract_zip_entries(zip_bytes.members, EmptyMap) # EmptyMap
  /\ zip_entries' = extract_zip_entries(zip_bytes.members, EmptyMap)
  /\ filename_to_meta' = build_filename_to_meta(items.items, EmptyMap)
  /\ sorted_filenames' = sorted(Keys(filename_to_meta'))
  /\ counter' = image_counter_start
  /\ pos' = 1
  /\ pc' = "save"
  /\ gets' = <<>>
  /\ UNCHANGED <<driver, idx, processed_rows, image_counter, row,
                 image_counter_start, attempt, zip_bytes, saved, metadata, calls,
                 outcome, fields>>

\* ------------------------------------------------------- the image loop
filename == sorted_filenames[pos]

ImageFile(n) ==
  [n |-> n, name |-> filename, data |-> Get(zip_entries, filename), run |-> run,
   call |-> calls]

MetaLine(n) ==
  [barcode |-> Get(filename_to_meta, filename).barcode,
   source |-> Get(filename_to_meta, filename).source, n |-> n, call |-> calls]

\* counter += 1 moved above the membership test
SkipMissing_Counts ==
  /\ pc = "save"
  /\ pos <= Len(sorted_filenames)
  /\ ~Has(zip_entries, filename)
  /\ counter' = counter + 1
  /\ pos' = pos + 1
  /\ UNCHANGED <<driver, pc, idx, processed_rows, image_counter, row,
                 image_counter_start, attempt, zip_bytes, zip_entries,
                 filename_to_meta, sorted_filenames, saved, metadata, calls,
                 outcome, gets, fields>>

\* if filename not in zip_entries: continue
SkipMissing ==
  /\ pc = "save"
  /\ pos <= Len(sorted_filenames)
  /\ ~Has(zip_entries, filename)
  /\ pos' = pos + 1
  /\ UNCHANGED <<driver, pc, idx, processed_rows, image_counter, row,
                 image_counter_start, attempt, zip_bytes, zip_entries,
                 filename_to_meta, sorted_filenames, counter, saved, metadata,
                 calls, outcome, gets, fields>>

\* The image written and its metadata line left out
SaveImage_NoLine ==
  /\ pc = "save"
  /\ pos <= Len(sorted_filenames)
  /\ Has(zip_entries, filename)
  /\ counter' = counter + 1
  /\ saved' = Append(saved, ImageFile(counter + 1))
  /\ pos' = pos + 1
  /\ UNCHANGED <<driver, pc, idx, processed_rows, image_counter, row,
                 image_counter_start, attempt, zip_bytes, zip_entries,
                 filename_to_meta, sorted_filenames, metadata, calls, outcome,
                 gets, fields>>

\* counter += 1; <counter>.heif is written; the metadata line is written
SaveImage ==
  /\ pc = "save"
  /\ pos <= Len(sorted_filenames)
  /\ Has(zip_entries, filename)
  /\ counter' = counter + 1
  /\ saved' = Append(saved, ImageFile(counter + 1))
  /\ metadata' = Append(metadata, MetaLine(counter + 1))
  /\ pos' = pos + 1
  /\ UNCHANGED <<driver, pc, idx, processed_rows, image_counter, row,
                 image_counter_start, attempt, zip_bytes, zip_entries,
                 filename_to_meta, sorted_filenames, calls, outcome, gets,
                 fields>>

\* counter += 1; open(out_path, 'wb') raises OSError
SaveOpenRaises ==
  /\ pc = "save"
  /\ pos <= Len(sorted_filenames)
  /\ Has(zip_entries, filename)
  /\ Raise(counter + 1, "open_raised")
  /\ UNCHANGED <<saved, metadata, gets, fields>>

\* counter += 1; <counter>.heif is written; meta_fp.write raises
SaveLineRaises ==
  /\ pc = "save"
  /\ pos <= Len(sorted_filenames)
  /\ Has(zip_entries, filename)
  /\ saved' = Append(saved, ImageFile(counter + 1))
  /\ Raise(counter + 1, "line_raised")
  /\ UNCHANGED <<metadata, gets, fields>>

\* return counter
RowReturn ==
  /\ pc = "save"
  /\ pos > Len(sorted_filenames)
  /\ Return(counter, "done")
  /\ UNCHANGED <<saved, metadata, gets, fields>>

Next ==
  \/ MainNoRows
  \/ MainLoaded
  \/ LoopDone
  \/ LoopBreak
  \/ CallRow
  \/ Rerun
  \/ SkipNoUrl
  \/ SkipNoItems
  \/ StartDownload
  \/ GetNoBytes
  \/ GetBytes
  \/ GetFailsRetry
  \/ GetFailsGiveUp
  \/ GetRaises
  \/ DecodeRaises
  \/ DecodeNoEntries
  \/ Prepare
  \/ SkipMissing
  \/ SaveImage
  \/ SaveOpenRaises
  \/ SaveLineRaises
  \/ RowReturn

Spec == Init /\ [][Next]_vars

\* ------------------------------------------------ the processing order alone
\* Filenames a row can match: x.j, a2.j, a10.j, b02.j, a2000000000.j
SortNames == {F_x, F_a2, F_a10, F_b02, F_a2e9}

\* The sequences without repetition over S: the key orders a dict can have
RECURSIVE Arrangements(_)
Arrangements(S) ==
  {<<>>} \cup UNION {{<<x>> \o q : q \in Arrangements(S \ {x})} : x \in S}

Meta(b, s) == [barcode |-> b, source |-> s]

\* filename_to_meta holds any matched filenames, in any insertion order
InitSort ==
  /\ pc = "order"
  /\ \E q \in Arrangements(SortNames) :
       filename_to_meta = [i \in 1..Len(q) |-> [k |-> q[i], v |-> Meta(B_12, S_ml)]]
  /\ run = 1
  /\ start = 0
  /\ limit_rows = 0
  /\ nrows = 0
  /\ idx = 0
  /\ processed_rows = 0
  /\ image_counter = 0
  /\ row = NoRow
  /\ image_counter_start = 0
  /\ attempt = 0
  /\ zip_bytes = NoBody
  /\ zip_entries = EmptyMap
  /\ sorted_filenames = <<>>
  /\ pos = 0
  /\ counter = 0
  /\ saved = <<>>
  /\ metadata = <<>>
  /\ calls = 0
  /\ outcome = NoOutcome
  /\ gets = <<>>
  /\ desired_field = None
  /\ field_value = None

\* sorted_filenames = sorted(filename_to_meta.keys(), key=sort_key)
Order ==
  /\ pc = "order"
  /\ sorted_filenames' = sorted(Keys(filename_to_meta))
  /\ pc' = "ordered"
  /\ UNCHANGED <<driver, idx, processed_rows, image_counter, row,
                 image_counter_start, attempt, zip_bytes, zip_entries,
                 filename_to_meta, pos, counter, saved, metadata, calls, outcome,
                 gets, fields>>

\* ----------------------------------------------------- the program runs on
\* Rows of the three kinds the loop meets: no archive URL; a JSON cell that
\* does not parse; an archive URL with two elements naming x.j and a2.j
RowsFew ==
  {[zip |-> None, json |-> Cell(Str(<<91, 93>>), JList(<<>>))],
   [zip |-> Str(U_http), json |-> Cell(Str(<<123>>), JError)],
   [zip |-> Str(U_http),
    json |-> Cell(Str(<<91, 123, 125, 93>>),
                  JList(<<Obj(Str(F_x), Str(B_12), Str(S_ml)),
                          Obj(Str(F_a2), Num(7), None)>>))]}

CallRowFew == CallRowOf(RowsFew)

\* The steps of the program, its manifests made of rows of RowsFew
NextFew ==
  \/ MainNoRows
  \/ MainLoaded
  \/ LoopDone
  \/ LoopBreak
  \/ CallRowFew
  \/ Rerun
  \/ SkipNoUrl
  \/ SkipNoItems
  \/ StartDownload
  \/ GetNoBytes
  \/ GetBytes
  \/ GetFailsRetry
  \/ GetFailsGiveUp
  \/ GetRaises
  \/ DecodeRaises
  \/ DecodeNoEntries
  \/ Prepare
  \/ SkipMissing
  \/ SaveImage
  \/ SaveOpenRaises
  \/ SaveLineRaises
  \/ RowReturn

\* The interpreter executes the next statement of the program whenever there
\* is one, and every GET attempt ends (urlopen is given a timeout)
FairSpec == Init /\ [][NextFew]_vars /\ WF_vars(NextFew)

SpecSort == InitSort /\ [][Order]_vars

\* ------------------------------------------------------ the field lookup alone
\* A name with a white space removed only at its two ends
normalize_field_name_Strip(name) == Strip(OrEmpty(name))

\* re.sub(r"\s+", "", name or ""): every white space character removed
normalize_field_name(name) == SelectSeq(OrEmpty(name), LAMBDA c : ~IsSpace(c))

\* get_field_value(row, desired_field), row a dict of header -> cell
get_field_value(r, desired) ==
  IF Has(r, desired) THEN Get(r, desired)
  ELSE LET desired_norm == normalize_field_name(desired)
           hits == {i \in 1..Len(r) : normalize_field_name(r[i].k) = desired_norm}
       IN IF hits = {} THEN None
          ELSE r[CHOOSE i \in hits : \A j \in hits : i <= j].v

\* Header names: "ab", "a b", " ab", "c", ""
H_ab == <<97, 98>>
H_a_b == <<97, 32, 98>>
H_sp_ab == <<32, 97, 98>>
H_c == <<99>>
FieldHeaders == {H_ab, H_a_b, H_sp_ab, H_c, <<>>}
\* Names asked for: "ab", "a b", "ab\t", "c", " "
FieldTargets == {H_ab, H_a_b, <<97, 98, 9>>, H_c, <<32>>}
\* Cells: "1", "2", and None for a cell the row is too short to have
FieldCells == {Str(<<49>>), Str(<<50>>), None}

\* The rows csv.DictReader can give: up to MaxFields distinct headers in any
\* order, each with a cell
FieldRows ==
  UNION {{[i \in 1..Len(q) |-> [k |-> Str(q[i]), v |-> c[i]]] :
            c \in [1..Len(q) -> FieldCells]} :
         q \in {a \in Arrangements(FieldHeaders) : Len(a) <= MaxFields}}

InitField ==
  /\ pc = "lookup"
  /\ row \in FieldRows
  /\ desired_field \in {Str(t) : t \in FieldTargets}
  /\ field_value = None
  /\ run = 1
  /\ start = 0
  /\ limit_rows = 0
  /\ nrows = 0
  /\ idx = 0
  /\ processed_rows = 0
  /\ image_counter = 0
  /\ image_counter_start = 0
  /\ attempt = 0
  /\ zip_bytes = NoBody
  /\ zip_entries = EmptyMap
  /\ filename_to_meta = EmptyMap
  /\ sorted_filenames = <<>>
  /\ pos = 0
  /\ counter = 0
  /\ saved = <<>>
  /\ metadata = <<>>
  /\ calls = 0
  /\ outcome = NoOutcome
  /\ gets = <<>>

\* get_field_value(row, desired_field) returns
Lookup ==
  /\ pc = "lookup"
  /\ field_value' = get_field_value(row, desired_field)
  /\ pc' = "looked_up"
  /\ UNCHANGED <<driver, idx, processed_rows, image_counter, locals, saved,
                 metadata, calls, outcome, gets, desired_field>>

SpecField == InitField /\ [][Lookup]_vars

\* --------------------------------------------------- the archive decoder alone
\* Member paths: "x.j", "d/x.j", "a2.j"; contents 1 and 2; and the directory
\* entry "d/", whose content is empty (0)
ZipPaths == {F_x, F_dir_x, F_a2}
ZipMembers ==
  {Member(p, data) : p \in ZipPaths, data \in 1..2} \cup {Member(<<100, 47>>, 0)}

\* zip_bytes is a well-formed archive of up to MaxMembers members
InitZip ==
  /\ pc = "unzip"
  /\ \E m \in SeqsUpTo(ZipMembers, MaxMembers) :
       zip_bytes = [kind |-> "zip", members |-> m]
  /\ zip_entries = EmptyMap
  /\ run = 1
  /\ start = 0
  /\ limit_rows = 0
  /\ nrows = 0
  /\ idx = 0
  /\ processed_rows = 0
  /\ image_counter = 0
  /\ row = NoRow
  /\ image_counter_start = 0
  /\ attempt = 0
  /\ filename_to_meta = EmptyMap
  /\ sorted_filenames = <<>>
  /\ pos = 0
  /\ counter = 0
  /\ saved = <<>>
  /\ metadata = <<>>
  /\ calls = 0
  /\ outcome = NoOutcome
  /\ gets = <<>>
  /\ desired_field = None
  /\ field_value = None

\* zip_entries = extract_zip_entries(zip_bytes)
Unzip ==
  /\ pc = "unzip"
  /\ zip_entries' = extract_zip_entries(zip_bytes.members, EmptyMap)
  /\ pc' = "unzipped"
  /\ UNCHANGED <<driver, idx, processed_rows, image_counter, row,
                 image_counter_start, attempt, zip_bytes, filename_to_meta,
                 sorted_filenames, pos, counter, saved, metadata, calls, outcome,
                 gets, fields>>

SpecZip == InitZip /\ [][Unzip]_vars

\* ================================================================ claims
Last(q) == q[Len(q)]
\* The image files, and the metadata lines, that call c wrote
SavedBy(c) == SelectSeq(saved, LAMBDA e : e.call = c)
LinesBy(c) == SelectSeq(metadata, LAMBDA l : l.call = c)
\* The image files run r wrote
SavedIn(r) == SelectSeq(saved, LAMBDA e : e.run = r)
InRow == pc \in {"check", "fetch", "decode", "save"}
AtDriver == pc \in {"loop", "done"}

\* C1: over any sequence of rows of one run (saving, skipped, raising
\* part-way) the Driver's counter never decreases, and every saved image gets
\* the number one greater than the image saved before it in the run (the
\* first one start + 1): no number skipped, none used for two saved images.
C1_CounterNeverReused ==
  [][/\ image_counter' >= image_counter
     /\ Len(saved') > Len(saved) =>
          Last(saved').n =
            IF SavedIn(run) = <<>> THEN start + 1 ELSE Last(SavedIn(run)).n + 1]_vars

\* C2: whenever process_shelf_tags_row returns, the metadata lines it
\* appended are as many as the image files it wrote, both are counter_end -
\* counter_start, and the files are named counter_start + 1 .. counter_end.
C2_RowCounts ==
  outcome.kind = "returned" =>
    LET w == SavedBy(calls)
        l == LinesBy(calls)
    IN /\ Len(l) = Len(w)
       /\ Len(w) = outcome.counter_end - outcome.counter_start
       /\ \A i \in 1..Len(w) : w[i].n = outcome.counter_start + i
       /\ \A i \in 1..Len(l) : l[i].n = outcome.counter_start + i

\* A call that returned after saving two images
C2_Witness ==
  /\ outcome.kind = "returned"
  /\ outcome.counter_end - outcome.counter_start >= 2
  /\ Len(LinesBy(calls)) >= 2

\* C3: a second run started with --start at the final counter value of the
\* first, on the same output directory, overwrites no image file of the first
\* run: every number it uses is greater than every number the first run used.
C3_RerunNeverOverwrites ==
  \A i, j \in 1..Len(saved) :
    saved[i].run = 1 /\ saved[j].run = 2 => saved[j].n > saved[i].n

\* C4: when process_shelf_tags_row raises, main catches the exception, keeps
\* the counter value it held before the failed row, and the next row is
\* processed from that value: the failed row's increments are not credited.
C4_FailedRowNoCredit ==
  /\ outcome.kind = "raised" => AtDriver /\ image_counter = outcome.counter_start
  /\ InRow => image_counter_start = image_counter

\* The row after a row that raised after saving an image: it starts below
\* that image's number
C4_Witness ==
  /\ pc = "check"
  /\ \E i \in 1..Len(saved) :
       saved[i].call = calls - 1 /\ saved[i].run = run /\ saved[i].n > image_counter_start

\* The archive-URL cell of row r is absent, empty or blank
UrlEmpty(r) == r.zip = None \/ \A i \in 1..Len(r.zip.s) : IsSpace(r.zip.s[i])
\* The JSON cell of row r is absent, empty or blank, or its text does not
\* parse, or parses to something that is not a list, or to the empty list
JsonUnusable(r) ==
  \/ r.json.text = None
  \/ \A i \in 1..Len(r.json.text.s) : IsSpace(r.json.text.s[i])
  \/ r.json.loads.t # "list"
  \/ r.json.loads.items = <<>>

\* C5: a row whose archive-URL field is empty, or whose JSON field is empty,
\* unparseable, not a list or the empty list, writes no image file, appends
\* no metadata line, returns counter_start unchanged and does not raise.
C5_SkippedRow ==
  [][pc = "check" /\ (UrlEmpty(row) \/ JsonUnusable(row)) =>
       /\ pc' = "loop"
       /\ outcome'.kind = "returned"
       /\ outcome'.counter_end = image_counter_start
       /\ image_counter' = image_counter
       /\ saved' = saved
       /\ metadata' = metadata]_vars

\* A row skipped at the check, in a run that has saved an image before
C5_Witness ==
  /\ outcome.kind = "returned"
  /\ outcome.reason \in {"no_url", "no_items"}
  /\ saved # <<>>

\* The matched filenames the image loop has gone past, and those of them
\* that the archive holds
Walked == {sorted_filenames[i] : i \in 1..(pos - 1)}
WalkedPresent == {f \in Walked : \E i \in 1..Len(zip_entries) : zip_entries[i].k = f}

\* C6: in a row whose archive downloads and decodes, a matched filename
\* absent from the archive causes no file write, no metadata line and no
\* counter increment, and every matched filename present in the archive is
\* saved and logged: the counter has advanced by the number of matched
\* filenames present in the archive among those walked (all of them when the
\* row returns).
C6_MissingFilenameOnly ==
  pc = "save" =>
    LET w == SavedBy(calls)
        l == LinesBy(calls)
    IN /\ counter - image_counter_start = Cardinality(WalkedPresent)
       /\ Len(w) = Cardinality(WalkedPresent)
       /\ Len(l) = Cardinality(WalkedPresent)
       /\ {w[i].name : i \in 1..Len(w)} = WalkedPresent
       /\ {l[i].n : i \in 1..Len(l)} = {w[i].n : i \in 1..Len(w)}

\* The loop is over: one matched filename was in the archive and is saved,
\* another was not
C6_Witness ==
  /\ pc = "save"
  /\ pos > Len(sorted_filenames)
  /\ Walked # WalkedPresent
  /\ WalkedPresent # {}
  /\ counter = image_counter_start + 1

\* C7: a row whose download exhausts its retries, whose archive is corrupt or
\* whose archive has no entries contributes no image file and no metadata
\* line, leaves main's counter unchanged, and the run goes on.
C7_FailedDownloadOrArchive ==
  outcome.reason \in {"gave_up", "bad_zip", "no_entries"} =>
    /\ AtDriver
    /\ image_counter = outcome.counter_start
    /\ SavedBy(calls) = <<>>
    /\ LinesBy(calls) = <<>>

\* A corrupt archive in a row that is not the last: main is at its loop
C7_Witness ==
  /\ outcome.reason = "bad_zip"
  /\ pc = "loop"
  /\ idx < nrows

\* The barcode of an element as text, and whether it is missing, null,
\* "null", empty or all zero digits once trimmed
BarcodeText(obj) == IF obj.barcode.t = "num" THEN StrOfNat(obj.barcode.n) ELSE obj.barcode.s
NoBarcode(obj) ==
  \/ obj.barcode = None
  \/ obj.barcode = Str(S_null)
  \/ Strip(BarcodeText(obj)) = <<>>
  \/ \A i \in 1..Len(Strip(BarcodeText(obj))) : Strip(BarcodeText(obj))[i] = 48
Names(obj) == obj.dict /\ obj.filename # None /\ Strip(obj.filename.s) # <<>>
\* The elements of the row's JSON array that name filename f
ElementsNaming(f) ==
  {i \in 1..Len(items.items) : Names(items.items[i]) /\ Strip(items.items[i].filename.s) = f}
WithBarcode(f) == {i \in ElementsNaming(f) : ~NoBarcode(items.items[i])}
LineHasBarcode(l) == l.barcode # <<>> /\ \E i \in 1..Len(l.barcode) : l.barcode[i] # 48

\* C8: a filename whose metadata element has a missing, null, "null", empty
\* or all-zero-digit barcode is excluded, its image never saved and no line
\* written for it, whatever its detection source; so no line of the log
\* carries an empty or all-zero barcode.  (The claim as stated: it fails for
\* a filename that an element with a usable barcode names as well.)
C8_NoBarcodeFilenameExcluded ==
  [][/\ Len(saved') > Len(saved) =>
          \A i \in ElementsNaming(Last(saved').name) : ~NoBarcode(items.items[i])
     /\ Len(metadata') > Len(metadata) =>
          \A i \in ElementsNaming(filename) : ~NoBarcode(items.items[i])]_vars

\* C8 as amended: an element without a usable barcode is skipped, whatever
\* its detection source: an image is saved, and a line written, only for a
\* filename that some element with a usable barcode names, the line carries
\* the trimmed barcode of the last such element, and so no line of the log
\* carries an empty or all-zero barcode.
C8_NoBarcodeElementSkipped ==
  [][/\ Len(saved') > Len(saved) => WithBarcode(Last(saved').name) # {}
     /\ Len(metadata') > Len(metadata) =>
          /\ WithBarcode(filename) # {}
          /\ LET last == CHOOSE i \in WithBarcode(filename) :
                           \A j \in WithBarcode(filename) : j <= i
             IN Last(metadata').barcode = Strip(BarcodeText(items.items[last]))
          /\ \A i \in 1..Len(metadata') : LineHasBarcode(metadata'[i])]_vars

\* A row with an element of all-zero barcode (and a detection source) naming
\* a file of the archive that no other element names: the loop is over, an
\* image of the row is saved and that file is not
C8_Witness ==
  /\ pc = "save"
  /\ pos > Len(sorted_filenames)
  /\ SavedBy(calls) # <<>>
  /\ \E i \in 1..Len(items.items) :
       LET obj == items.items[i]
       IN /\ obj.barcode = Str(B_000)
          /\ obj.source = Str(S_ml)
          /\ Has(zip_entries, Strip(obj.filename.s))
          /\ WithBarcode(Strip(obj.filename.s)) = {}
          /\ \A k \in 1..Len(saved) : saved[k].name # Strip(obj.filename.s)

\* The order claimed: numbered before unnumbered, numbered by value, then text
ClaimedBefore(a, b) ==
  IF HasIntSuffix(a) /\ HasIntSuffix(b)
  THEN \/ parse_int_suffix_from_filename(a) < parse_int_suffix_from_filename(b)
       \/ /\ parse_int_suffix_from_filename(a) = parse_int_suffix_from_filename(b)
          /\ StrLess(a, b)
  ELSE IF HasIntSuffix(a) # HasIntSuffix(b) THEN HasIntSuffix(a)
  ELSE StrLess(a, b)

\* C9: the processing order of the matched filenames depends only on the
\* filenames: those with a numeric suffix first, in ascending numeric value,
\* every filename without one after all numbered ones, ties broken by text.
C9_ProcessingOrder ==
  pc = "ordered" =>
    /\ Len(sorted_filenames) = Len(filename_to_meta)
    /\ {sorted_filenames[i] : i \in 1..Len(sorted_filenames)}
         = {filename_to_meta[i].k : i \in 1..Len(filename_to_meta)}
    /\ \A i, j \in 1..Len(sorted_filenames) :
         i < j => ClaimedBefore(sorted_filenames[i], sorted_filenames[j])

IsPrefix(p, q) == Len(p) <= Len(q) /\ SubSeq(q, 1, Len(p)) = p

\* C10: the metadata log is append-only across the run: its earlier content
\* is a prefix of its later content, each row's lines come after the lines
\* of earlier rows, and the lines are in the order of the counter values of
\* their images.
C10_AppendOnlyInCounterOrder ==
  [][/\ IsPrefix(metadata, metadata')
     /\ \A i, j \in 1..Len(metadata') :
          i < j => /\ metadata'[i].call <= metadata'[j].call
                   /\ metadata'[i].n < metadata'[j].n]_vars

\* C11: download_bytes makes at most MaxRetries GET attempts and every attempt
\* before the last one failed with a caught error, so nothing is attempted
\* after a success; the bytes handed to the row are the body the successful
\* attempt read; and it returns None exactly when MaxRetries attempts were
\* made and every one of them failed with a caught error.
C11_FetchBounded ==
  /\ Len(gets) <= MaxRetries
  /\ \A i \in 1..(Len(gets) - 1) : gets[i].result = "error"
  /\ pc = "fetch" =>
       /\ Len(gets) = attempt - 1
       /\ \A i \in 1..Len(gets) : gets[i].result = "error"
  /\ pc = "decode" =>
       /\ gets # <<>>
       /\ Last(gets).result = "ok"
       /\ zip_bytes = Last(gets).body
  /\ outcome.reason = "no_data" =>
       /\ gets # <<>>
       /\ Last(gets) = Got("ok", EmptyBody)
  /\ outcome.reason = "gave_up" <=>
       /\ Len(gets) = MaxRetries
       /\ \A i \in 1..Len(gets) : gets[i].result = "error"

\* download_bytes has returned None after MaxRetries failed attempts
C11_Witness ==
  /\ outcome.reason = "gave_up"
  /\ Len(gets) = MaxRetries
  /\ pc = "loop"

\* The rows of this run process_shelf_tags_row has been called on: the loop
\* calls it on rows[idx] for idx = 0, 1, ... without leaving one out
RowsInvoked == IF InRow THEN idx + 1 ELSE idx

\* C12: with a row cap limit_rows > 0, process_shelf_tags_row is called on at
\* most limit_rows rows of the run, whatever the earlier rows ended in.
C12_RowCap ==
  (limit_rows # 0 /\ (InRow \/ AtDriver)) => RowsInvoked <= limit_rows

\* The loop of main goes through the rows one by one: a call is made on
\* rows[idx] with idx < nrows, the end of a call, returning or raising, moves
\* the loop to rows[idx + 1], idx changes in no other way once the rows are
\* loaded, and without a cap the loop ends only when it is out of rows
OneByOne ==
  /\ (pc = "loop" /\ pc' = "check") => (idx' = idx /\ idx < nrows)
  /\ (InRow /\ ~InRow') => (pc' = "loop" /\ idx' = idx + 1)
  /\ (idx' # idx /\ pc # "main") => (InRow /\ ~InRow')
  /\ (limit_rows = 0 /\ pc = "loop" /\ pc' = "done") => idx = nrows

\* C13: with no row cap, once the rows are loaded the row the loop is at is
\* eventually passed to process_shelf_tags_row, the rows are passed in source
\* order and once each, and the run reaches "Done" with every row attempted,
\* also when rows raise.
C13_AllRowsAttempted ==
  /\ [][OneByOne]_vars
  /\ (limit_rows = 0 /\ pc = "loop" /\ idx < nrows) ~> InRow
  /\ (limit_rows = 0 /\ pc = "loop") ~> (pc = "done" /\ idx = nrows)

\* A run without a cap is done with both its rows attempted, the first of
\* which raised
C13_Witness ==
  /\ pc = "done"
  /\ limit_rows = 0
  /\ nrows = 2 /\ idx = 2
  /\ processed_rows = 1
  /\ outcome.kind = "returned"

\* The metadata lines run r appended: a line is written in the call that
\* wrote its image file
LinesIn(r) ==
  SelectSeq(metadata,
            LAMBDA l : \E i \in 1..Len(saved) :
                         saved[i].call = l.call /\ saved[i].run = r)
\* The distinct files <n>.heif run r wrote
FilesIn(r) == {SavedIn(r)[i].n : i \in 1..Len(SavedIn(r))}

\* C14: whenever main is between two rows or done, the lines the run appended
\* to metadata.txt number as many as the distinct image files it wrote, and
\* as many as image_counter - start.
C14_LinesFilesCounter ==
  AtDriver =>
    /\ Len(LinesIn(run)) = Cardinality(FilesIn(run))
    /\ Len(LinesIn(run)) = image_counter - start

\* The detection source an element gives, as a line shows it: trimmed, and
\* empty when missing, null or "null"
SourceText(obj) ==
  IF obj.source = None \/ obj.source = Str(S_null) THEN <<>> ELSE Strip(obj.source.s)

\* The last of a non-empty set of positions in the JSON array
LastOf(S) == CHOOSE i \in S : \A j \in S : j <= i

\* The row so far has saved no filename twice and written no more lines than
\* images
OncePerName ==
  /\ \A i, j \in 1..Len(SavedBy(calls)) :
       SavedBy(calls)[i].name = SavedBy(calls)[j].name => i = j
  /\ Len(LinesBy(calls)) <= Len(SavedBy(calls))

\* C15: when several elements of a row name the same filename the filename
\* yields at most one image and one line, and the line carries the barcode
\* and the source of the last element of the array with that filename.  (The
\* claim as stated: it fails when that last element has no usable barcode.)
C15_LastElementWins ==
  [][Len(metadata') > Len(metadata) =>
       /\ OncePerName'
       /\ LET obj == items.items[LastOf(ElementsNaming(filename))]
          IN /\ Last(metadata').barcode = Strip(BarcodeText(obj))
             /\ Last(metadata').source = SourceText(obj)]_vars

\* C15 as amended: the filename yields at most one image and one line, and
\* the line carries the barcode and the source of the last element of the
\* array that names the filename and has a usable barcode; elements without
\* one overwrite nothing.
C15_LastUsableElementWins ==
  [][Len(metadata') > Len(metadata) =>
       /\ OncePerName'
       /\ LET obj == items.items[LastOf(WithBarcode(filename))]
          IN /\ Last(metadata').barcode = Strip(BarcodeText(obj))
             /\ Last(metadata').source = SourceText(obj)]_vars

\* A row two of whose elements name the same filename with different usable
\* barcodes and sources has saved that file and written its line
C15_Witness ==
  /\ pc = "save"
  /\ LinesBy(calls) # <<>>
  /\ \E k \in 1..Len(saved) :
       /\ saved[k].call = calls
       /\ \E i, j \in WithBarcode(saved[k].name) :
            /\ i < j
            /\ Strip(BarcodeText(items.items[i])) # Strip(BarcodeText(items.items[j]))
            /\ SourceText(items.items[i]) # SourceText(items.items[j])

\* A name with every white space character taken out
RECURSIVE Squeeze(_)
Squeeze(s) ==
  IF s = <<>> THEN <<>>
  ELSE IF IsSpace(Head(s)) THEN Squeeze(Tail(s))
  ELSE <<Head(s)>> \o Squeeze(Tail(s))

\* The columns of the row whose header is the name asked for, and those whose
\* header is that name up to white space
ExactColumns == {i \in 1..Len(row) : row[i].k = desired_field}
LooseColumns ==
  {i \in 1..Len(row) : Squeeze(row[i].k.s) = Squeeze(desired_field.s)}

\* C16: get_field_value returns the cell under the exact header when the row
\* has it; otherwise the cell of the first header, in header order, that
\* equals the name asked for once all white space is removed from both;
\* otherwise None.
C16_FieldLookup ==
  pc = "looked_up" =>
    /\ ExactColumns # {} => \E i \in ExactColumns : field_value = row[i].v
    /\ (ExactColumns = {} /\ LooseColumns # {}) =>
         \E i \in LooseColumns :
           /\ \A j \in LooseColumns : i <= j
           /\ field_value = row[i].v
    /\ (ExactColumns = {} /\ LooseColumns = {}) => field_value = None

\* No header is the name asked for, two headers are up to white space, with
\* different cells, and the cell of the first of them is returned
C16_Witness ==
  /\ pc = "looked_up"
  /\ ExactColumns = {}
  /\ \E i, j \in LooseColumns : i < j /\ row[i].v # row[j].v /\ row[j].v # None
  /\ field_value # None

\* The final component of a member path: what is left after its last '/'
FinalComponent(path) ==
  LET slashes == {i \in 1..Len(path) : path[i] = 47}
  IN IF slashes = {} THEN path
     ELSE SubSeq(path, (CHOOSE i \in slashes : \A j \in slashes : j <= i) + 1,
                 Len(path))

\* The members of the archive with final component name
MembersNamed(name) ==
  {i \in 1..Len(zip_bytes.members) : FinalComponent(zip_bytes.members[i].path) = name}

\* C17: extract_zip_entries keys every member by the final component of its
\* path and nothing else; a name has one entry, and its content is that of
\* the last member of the archive, in member order, with that name.
C17_LaterMemberWins ==
  pc = "unzipped" =>
    /\ \A i \in 1..Len(zip_bytes.members) :
         Has(zip_entries, FinalComponent(zip_bytes.members[i].path))
    /\ \A e \in 1..Len(zip_entries) :
         /\ MembersNamed(zip_entries[e].k) # {}
         /\ \A f \in 1..Len(zip_entries) : zip_entries[f].k = zip_entries[e].k => f = e
         /\ zip_entries[e].v = zip_bytes.members[LastOf(MembersNamed(zip_entries[e].k))].data

\* Two members in different directories have the same name and different
\* contents, and the mapping has one entry for the name
C17_Witness ==
  /\ pc = "unzipped"
  /\ \E i, j \in MembersNamed(F_x) :
       /\ i < j
       /\ zip_bytes.members[i].path # zip_bytes.members[j].path
       /\ zip_bytes.members[i].data # zip_bytes.members[j].data
  /\ Cardinality({e \in 1..Len(zip_entries) : zip_entries[e].k = F_x}) = 1

\* The row in hand passes the two skip checks
ChecksPass == ~UrlEmpty(row) /\ ~JsonUnusable(row)

\* download_bytes has handed the row a body that is not empty
GotBytes == zip_bytes.kind \in {"zip", "corrupt"}

\* C18: within a row a GET attempt is made only once both skip checks have
\* passed, so a row with an empty archive URL, or whose metadata is not a
\* non-empty list, makes none; and the archive is decoded, an image file
\* written or a metadata line appended only after download_bytes returned
\* bytes that are not empty.
C18_ChecksBeforeDownload ==
  [][/\ (gets' # gets /\ gets' # <<>>) => (pc = "fetch" /\ ChecksPass)
     /\ (pc = "check" /\ ~ChecksPass) => (pc' = "loop" /\ gets' = <<>>)
     /\ pc' \in {"fetch", "decode", "save"} => ChecksPass'
     /\ pc' = "decode" =>
          (GotBytes' /\ pc = "fetch" /\ Last(gets') = Got("ok", zip_bytes'))
     /\ (zip_entries' # zip_entries /\ zip_entries' # EmptyMap) =>
          (pc = "decode" /\ GotBytes)
     /\ (saved' # saved \/ metadata' # metadata) =>
          (pc = "save" /\ GotBytes /\ ChecksPass)]_vars

\* The first row downloaded its archive and saved an image, the second was
\* skipped at a check and made no GET attempt
C18_Witness ==
  /\ pc = "loop"
  /\ calls = 2
  /\ outcome.reason \in {"no_url", "no_items"}
  /\ gets = <<>>
  /\ SavedBy(1) # <<>>

====
